---- MODULE Spec2Model ----
(***************************************************************************)
(* Multimethods for Python: the two modules of the repository,             *)
(*   multimethodic.py  (instance-local method tables, no registry) and     *)
(*   multimethods.py   (class-level registry `instances`, back-reference   *)
(*                      `func.multimethod` on every registered function).  *)
(* A behaviour is one interpreter session that imported one of the two     *)
(* modules (variable `module`) and then constructs multimethods, adds and  *)
(* removes methods and calls the multimethods.                             *)
(***************************************************************************)
EXTENDS Integers, Sequences, FiniteSets, TLC

VARIABLES
    module,     \* which module the session imported
    heap,       \* the live MultiMethod objects, by object id 1..Len(heap)
    instances,  \* multimethods.py: MultiMethod.instances, name -> object id
    attrs,      \* multimethods.py: func.multimethod, function -> object id
    last,       \* the last operation performed and what it did
    nops,       \* how many operations the session has performed
    budget,     \* how many operations the session performs at most
    threads     \* the constructions in progress, one per thread

vars == <<module, heap, instances, attrs, last, nops, budget, threads>>

----------------------------------------------------------------------------
(* Bounds of the model *)

\* how many MultiMethod objects a session constructs successfully
MaxInst == 2
\* user dispatch values are 1..MaxVal
MaxVal == 1
\* a session performs at most MaxOps operations (one more in SpecLong)
MaxOps == 4
\* how many threads construct multimethods concurrently (SpecThreads)
MaxThreads == 2

----------------------------------------------------------------------------
(* The values of a session *)

Modules == {"multimethodic", "multimethods"}

\* The sentinel object `Default = DefaultMethod()`: one object, different
\* from every user dispatch value.
Default == 0

Values == 1..MaxVal
DispatchVals == Values \cup {Default}

\* What a caller passes to a multimethod, as the tuple *args: one argument
\* (a dispatch value or a value that is never registered), or one argument
\* too many for a function of one parameter.
Args == {<<v>> : v \in DispatchVals \cup {MaxVal + 1}} \cup {<<1, 1>>}

\* Names of multimethods; one of them holds the separator '__' itself.
Names == {"a", "a__b"}

\* What a caller passes as the optional third constructor argument.
NoNamespace == "none"
Namespaces == {"ns1", "ns2"}

\* Dispatch functions a caller supplies: `identity = lambda x: x` and a
\* function mapping all arguments to the dispatch value 1 (`lambda *a: 1`).
DispatchFns == {"identity", "one"}
\* A value that is not callable, passed where a dispatch function belongs.
NotCallable == "notcallable"

\* Implementations a caller registers (plain Python functions):
\* def a__c(x), def a__b__c(*args), def a_c(*args).
Funcs == {"f", "g", "h"}

\* func.__name__, character by character
FuncName(func) ==
    CASE func = "f" -> <<"a", "_", "_", "c">>
      [] func = "g" -> <<"a", "_", "_", "b", "_", "_", "c">>
      [] func = "h" -> <<"a", "_", "c">>

\* the Python string of a sequence of characters
RECURSIVE Join(_)
Join(chars) == IF chars = <<>> THEN "" ELSE Head(chars) \o Join(Tail(chars))

\* whether '__' occurs in chars at position i
SepAt(chars, i) ==
    i >= 1 /\ i < Len(chars) /\ chars[i] = "_" /\ chars[i + 1] = "_"

\* `'__' in chars`
HasSep(chars) == \E i \in 1..Len(chars) : SepAt(chars, i)

\* where str.rsplit finds the separator: scanning from the right end, the
\* first position at or below i where '__' occurs (0 for none)
RECURSIVE RFind(_, _)
RFind(chars, i) ==
    IF i < 1 THEN 0
    ELSE IF SepAt(chars, i) THEN i
    ELSE RFind(chars, i - 1)

\* where str.split finds the separator: scanning from the left end
RECURSIVE Find(_, _)
Find(chars, i) ==
    IF i >= Len(chars) THEN 0
    ELSE IF SepAt(chars, i) THEN i
    ELSE Find(chars, i + 1)

\* chars.split('__', 1)[0]: the part before the first '__'
split_first(chars) ==
    LET k == Find(chars, 1)
    IN IF k = 0 THEN chars ELSE SubSeq(chars, 1, k - 1)

\* chars.rsplit('__', 1)[0]: the part before the last '__'
rsplit_first(chars) ==
    LET k == RFind(chars, Len(chars) - 1)
    IN IF k = 0 THEN chars ELSE SubSeq(chars, 1, k - 1)

None == "none"

\* A check that accepts everything (the check left out).
callable_Always(dispatchfn) == TRUE

\* Python's callable(dispatchfn)
callable(dispatchfn) == dispatchfn \in DispatchFns

\* dispatchfn(*args) raises TypeError: a function of one parameter called
\* with more arguments
DispatchFnRaises(dispatchfn, x) == dispatchfn = "identity" /\ Len(x) # 1

\* dispatchfn(*args), when it returns
ApplyDispatchFn(dispatchfn, x) ==
    IF dispatchfn = "identity" THEN x[1] ELSE 1

\* func(*args) raises TypeError: a function of one parameter called with more
\* arguments
FuncRaises(func, x) == func = "f" /\ Len(x) # 1

\* func(*args), when it returns: every implementation returns a value that
\* tells which implementation ran and on which arguments.
ApplyFunc(func, x) == <<func, x>>

----------------------------------------------------------------------------
(* Python dict operations *)

EmptyDict == <<>>

\* d[k] = v
DictSet(d, k, v) == [x \in DOMAIN d \cup {k} |-> IF x = k THEN v ELSE d[x]]

\* del d[k], for k in d
DictDel(d, k) == [x \in DOMAIN d \ {k} |-> d[x]]

----------------------------------------------------------------------------
(* Outcomes of operations *)

\* a normal return
Return(value, invoked) ==
    [raised |-> None, errname |-> None, ret |-> value, invoked |-> invoked]

\* an exception of Python type `type`; `name` is the multimethod name the
\* exception carries (in its `name` attribute or in its message)
Raise(type, name, invoked) ==
    [raised |-> type, errname |-> name, ret |-> <<>>, invoked |-> invoked]

\* a reference to the MultiMethod object id, as a returned value
ObjRef(id) == <<"MultiMethod", id>>

\* a reference to the function func, as a returned value
FuncRef(func) == <<"function", func>>

\* one invocation of an implementation: the key of the method table it was
\* fetched under, the implementation and the arguments
Invocation(key, func, x) == [key |-> key, func |-> func, arg |-> x]

\* `return self.methods[key](*args, **kwds)`: the implementation's result is
\* the call's result and its exception is the call's exception
Invoke(key, func, x) ==
    IF FuncRaises(func, x)
    THEN Raise("TypeError", None, <<Invocation(key, func, x)>>)
    ELSE Return(ApplyFunc(func, x), <<Invocation(key, func, x)>>)

----------------------------------------------------------------------------
(* multimethodic.py *)

\* A MultiMethod object: self.name, self.dispatchfn, self.methods
MultiMethod(name, dispatchfn) ==
    [name |-> name, dispatchfn |-> dispatchfn, methods |-> EmptyDict]

\* An __init__ that rejects a name some live multimethod already has, as
\* multimethods.py does.
Multimethodic_init_Unique(hp, name, dispatchfn, namespace) ==
    IF namespace # NoNamespace
    THEN [out |-> Raise("TypeError", None, <<>>), heap |-> hp]
    ELSE IF ~callable(dispatchfn)
    THEN [out |-> Raise("TypeError", None, <<>>), heap |-> hp]
    ELSE IF \E i \in 1..Len(hp) : hp[i].name = name
    THEN [out |-> Raise("Exception", name, <<>>), heap |-> hp]
    ELSE [out |-> Return(<<>>, <<>>),
          heap |-> Append(hp, MultiMethod(name, dispatchfn))]

\* MultiMethod.__init__(self, name, dispatchfn), called with the arguments
\* (name, dispatchfn) and, when namespace is given, a third one.  The
\* signature takes no third argument: Python rejects the call.
Multimethodic_init(hp, name, dispatchfn, namespace) ==
    IF namespace # NoNamespace
    THEN [out |-> Raise("TypeError", None, <<>>), heap |-> hp]
    ELSE IF ~callable(dispatchfn)
    THEN [out |-> Raise("TypeError", None, <<>>), heap |-> hp]
    ELSE [out |-> Return(<<>>, <<>>),
          heap |-> Append(hp, MultiMethod(name, dispatchfn))]

\* A __call__ that looks for the Default entry before the exact match.
Multimethodic_call_DefaultFirst(self, x) ==
    IF DispatchFnRaises(self.dispatchfn, x)
    THEN Raise("TypeError", None, <<>>)
    ELSE
    LET dv == ApplyDispatchFn(self.dispatchfn, x) IN
    IF Default \in DOMAIN self.methods
    THEN Invoke(Default, self.methods[Default], x)
    ELSE IF dv \in DOMAIN self.methods
    THEN Invoke(dv, self.methods[dv], x)
    ELSE Raise("DispatchError", self.name, <<>>)

\* A __call__ that answers with the Default implementation when the matching
\* implementation raises.
Multimethodic_call_Recover(self, x) ==
    IF DispatchFnRaises(self.dispatchfn, x)
    THEN Raise("TypeError", None, <<>>)
    ELSE
    LET dv == ApplyDispatchFn(self.dispatchfn, x) IN
    IF dv \in DOMAIN self.methods
    THEN IF FuncRaises(self.methods[dv], x) /\ Default \in DOMAIN self.methods
         THEN LET r == Invoke(Default, self.methods[Default], x)
              IN [r EXCEPT !.invoked =
                      <<Invocation(dv, self.methods[dv], x)>> \o @]
         ELSE Invoke(dv, self.methods[dv], x)
    ELSE IF Default \in DOMAIN self.methods
    THEN Invoke(Default, self.methods[Default], x)
    ELSE Raise("DispatchError", self.name, <<>>)

\* MultiMethod.__call__(self, *args)
Multimethodic_call(self, x) ==
    IF DispatchFnRaises(self.dispatchfn, x)
    THEN Raise("TypeError", None, <<>>)
    ELSE
    LET dv == ApplyDispatchFn(self.dispatchfn, x) IN
    IF dv \in DOMAIN self.methods
    THEN Invoke(dv, self.methods[dv], x)
    ELSE IF Default \in DOMAIN self.methods
    THEN Invoke(Default, self.methods[Default], x)
    ELSE Raise("DispatchError", self.name, <<>>)

\* MultiMethod.addmethod(self, func, dispatchval)
Multimethodic_addmethod(methods, func, dispatchval) ==
    [out |-> Return(<<>>, <<>>), methods |-> DictSet(methods, dispatchval, func)]

\* A removemethod that ignores a missing entry
\* (self.methods.pop(dispatchval, None)).
Multimethodic_removemethod_Pop(methods, dispatchval) ==
    [out |-> Return(<<>>, <<>>),
     methods |-> [k \in DOMAIN methods \ {dispatchval} |-> methods[k]]]

\* MultiMethod.removemethod(self, dispatchval)
Multimethodic_removemethod(methods, dispatchval) ==
    IF dispatchval \in DOMAIN methods
    THEN [out |-> Return(<<>>, <<>>), methods |-> DictDel(methods, dispatchval)]
    ELSE [out |-> Raise("KeyError", None, <<>>), methods |-> methods]

\* MultiMethod.method(self, dispatchval): the closure method_decorator, which
\* holds self (object id) and dispatchval
Multimethodic_method(id, dispatchval) ==
    Return(<<"method_decorator", id, dispatchval>>, <<>>)

\* A method_decorator that returns the decorated function, not the
\* multimethod.
Multimethodic_method_decorator_ReturnsFunc(methods, id, dispatchval, func) ==
    [out |-> Return(FuncRef(func), <<>>),
     methods |-> Multimethodic_addmethod(methods, func, dispatchval).methods]

\* method_decorator(func) of the closure made by self.method(dispatchval);
\* methods is self.methods
Multimethodic_method_decorator(methods, id, dispatchval, func) ==
    LET r == Multimethodic_addmethod(methods, func, dispatchval)
    IN [out |-> Return(ObjRef(id), <<>>), methods |-> r.methods]

----------------------------------------------------------------------------
(* multimethods.py *)

\* A registry check that never finds the name (the check left out).
Multimethods_exists_Never(insts, name) == FALSE

\* `name in self.__class__.instances`
Multimethods_exists(insts, name) == name \in DOMAIN insts

\* An __init__ without the name check: a second multimethod of a name takes
\* the registry entry of the first.
Multimethods_init_Replace(hp, insts, name, dispatchfn, namespace) ==
    IF namespace # NoNamespace
    THEN [out |-> Raise("TypeError", None, <<>>), heap |-> hp, instances |-> insts]
    ELSE IF ~callable(dispatchfn)
    THEN [out |-> Raise("TypeError", None, <<>>), heap |-> hp, instances |-> insts]
    ELSE [out |-> Return(<<>>, <<>>),
          heap |-> Append(hp, MultiMethod(name, dispatchfn)),
          instances |-> DictSet(insts, name, Len(hp) + 1)]

\* MultiMethod.__init__(self, name, dispatchfn), called with the arguments
\* (name, dispatchfn) and, when namespace is given, a third one.
Multimethods_init(hp, insts, name, dispatchfn, namespace) ==
    IF namespace # NoNamespace
    THEN [out |-> Raise("TypeError", None, <<>>), heap |-> hp, instances |-> insts]
    ELSE IF ~callable(dispatchfn)
    THEN [out |-> Raise("TypeError", None, <<>>), heap |-> hp, instances |-> insts]
    ELSE IF Multimethods_exists(insts, name)
    THEN [out |-> Raise("Exception", name, <<>>), heap |-> hp, instances |-> insts]
    ELSE [out |-> Return(<<>>, <<>>),
          heap |-> Append(hp, MultiMethod(name, dispatchfn)),
          instances |-> DictSet(insts, name, Len(hp) + 1)]

\* A __call__ without the Default fallback.
Multimethods_call_NoFallback(self, x) ==
    IF DispatchFnRaises(self.dispatchfn, x)
    THEN Raise("TypeError", None, <<>>)
    ELSE
    LET dv == ApplyDispatchFn(self.dispatchfn, x) IN
    IF dv \in DOMAIN self.methods
    THEN Invoke(dv, self.methods[dv], x)
    ELSE Raise("ValueError", self.name, <<>>)

\* A __call__ that falls off its end (returns None) instead of raising.
Multimethods_call_NoRaise(self, x) ==
    IF DispatchFnRaises(self.dispatchfn, x)
    THEN Raise("TypeError", None, <<>>)
    ELSE
    LET dv == ApplyDispatchFn(self.dispatchfn, x) IN
    IF dv \in DOMAIN self.methods
    THEN Invoke(dv, self.methods[dv], x)
    ELSE IF Default \in DOMAIN self.methods
    THEN Invoke(Default, self.methods[Default], x)
    ELSE Return(<<>>, <<>>)

\* MultiMethod.__call__(self, *args)
Multimethods_call(self, x) ==
    IF DispatchFnRaises(self.dispatchfn, x)
    THEN Raise("TypeError", None, <<>>)
    ELSE
    LET dv == ApplyDispatchFn(self.dispatchfn, x) IN
    IF dv \in DOMAIN self.methods
    THEN Invoke(dv, self.methods[dv], x)
    ELSE IF Default \in DOMAIN self.methods
    THEN Invoke(Default, self.methods[Default], x)
    ELSE Raise("ValueError", self.name, <<>>)

\* An addmethod that keeps an entry that is already there
\* (self.methods.setdefault(dispatchval, func)).
Multimethods_addmethod_KeepFirst(methods, at, id, func, dispatchval) ==
    [out |-> Return(<<>>, <<>>),
     methods |-> IF dispatchval \in DOMAIN methods
                 THEN methods ELSE DictSet(methods, dispatchval, func),
     attrs |-> DictSet(at, func, id)]

\* MultiMethod.addmethod(self, func, dispatchval); id is the object id of self
Multimethods_addmethod(methods, at, id, func, dispatchval) ==
    [out |-> Return(<<>>, <<>>),
     methods |-> DictSet(methods, dispatchval, func),
     attrs |-> DictSet(at, func, id)]

\* A removemethod that empties the whole table (self.methods.clear()).
Multimethods_removemethod_Clear(methods, at, dispatchval) ==
    IF dispatchval \notin DOMAIN methods
    THEN [out |-> Raise("KeyError", None, <<>>), methods |-> methods, attrs |-> at]
    ELSE IF methods[dispatchval] \notin DOMAIN at
    THEN [out |-> Raise("AttributeError", None, <<>>),
          methods |-> methods, attrs |-> at]
    ELSE [out |-> Return(<<>>, <<>>),
          methods |-> EmptyDict,
          attrs |-> DictDel(at, methods[dispatchval])]

\* MultiMethod.removemethod(self, dispatchval)
Multimethods_removemethod(methods, at, dispatchval) ==
    IF dispatchval \notin DOMAIN methods
    THEN [out |-> Raise("KeyError", None, <<>>), methods |-> methods, attrs |-> at]
    ELSE IF methods[dispatchval] \notin DOMAIN at
    THEN [out |-> Raise("AttributeError", None, <<>>),
          methods |-> methods, attrs |-> at]
    ELSE [out |-> Return(<<>>, <<>>),
          methods |-> DictDel(methods, dispatchval),
          attrs |-> DictDel(at, methods[dispatchval])]

\* A getmethod that answers with the Default entry when dispatchval has none.
Multimethods_getmethod_Default(methods, dispatchval) ==
    IF dispatchval \in DOMAIN methods
    THEN Return(FuncRef(methods[dispatchval]), <<>>)
    ELSE IF Default \in DOMAIN methods
    THEN Return(FuncRef(methods[Default]), <<>>)
    ELSE Raise("KeyError", None, <<>>)

\* MultiMethod.getmethod(self, dispatchval)
Multimethods_getmethod(methods, dispatchval) ==
    IF dispatchval \in DOMAIN methods
    THEN Return(FuncRef(methods[dispatchval]), <<>>)
    ELSE Raise("KeyError", None, <<>>)

\* A method_decorator that returns the function without registering it when
\* no multimethod of the derived name exists.
Multimethods_method_decorator_Silent(hp, insts, at, dispatchval, func) ==
    LET mm_name == Join(rsplit_first(FuncName(func))) IN
    IF ~HasSep(FuncName(func))
    THEN [out |-> Raise("ValueError", None, <<>>), heap |-> hp, attrs |-> at,
          self |-> 0]
    ELSE IF mm_name \notin DOMAIN insts
    THEN [out |-> Return(FuncRef(func), <<>>), heap |-> hp, attrs |-> at,
          self |-> 0]
    ELSE LET id == insts[mm_name]
             r == Multimethods_addmethod(hp[id].methods, at, id, func,
                                         dispatchval)
         IN [out |-> Return(FuncRef(func), <<>>),
             heap |-> [hp EXCEPT ![id].methods = r.methods],
             attrs |-> r.attrs, self |-> id]

\* A method_decorator that takes the multimethod's name up to the first
\* '__' (split instead of rsplit).
Multimethods_method_decorator_Split(hp, insts, at, dispatchval, func) ==
    LET mm_name == Join(split_first(FuncName(func))) IN
    IF ~HasSep(FuncName(func))
    THEN [out |-> Raise("ValueError", None, <<>>), heap |-> hp, attrs |-> at,
          self |-> 0]
    ELSE IF mm_name \notin DOMAIN insts
    THEN [out |-> Raise("KeyError", None, <<>>), heap |-> hp, attrs |-> at,
          self |-> 0]
    ELSE LET id == insts[mm_name]
             r == Multimethods_addmethod(hp[id].methods, at, id, func,
                                         dispatchval)
         IN [out |-> Return(FuncRef(func), <<>>),
             heap |-> [hp EXCEPT ![id].methods = r.methods],
             attrs |-> r.attrs, self |-> id]

\* method(dispatchval)(func): method_decorator(func) of the module-level
\* decorator; self is the multimethod the function was added to (0: none)
Multimethods_method_decorator(hp, insts, at, dispatchval, func) ==
    LET mm_name == Join(rsplit_first(FuncName(func))) IN
    IF ~HasSep(FuncName(func))
    THEN [out |-> Raise("ValueError", None, <<>>), heap |-> hp, attrs |-> at,
          self |-> 0]
    ELSE IF mm_name \notin DOMAIN insts
    THEN [out |-> Raise("KeyError", None, <<>>), heap |-> hp, attrs |-> at,
          self |-> 0]
    ELSE LET id == insts[mm_name]
             r == Multimethods_addmethod(hp[id].methods, at, id, func,
                                         dispatchval)
         IN [out |-> Return(FuncRef(func), <<>>),
             heap |-> [hp EXCEPT ![id].methods = r.methods],
             attrs |-> r.attrs, self |-> id]

----------------------------------------------------------------------------
(* The session *)

Ids == 1..Len(heap)

\* self(x), in the module the session imported
MultiMethod_call(self, x) ==
    IF module = "multimethodic"
    THEN Multimethodic_call(self, x)
    ELSE Multimethods_call(self, x)

\* The record of an operation: its name, the object it was called on (0 for
\* none), its arguments, the method table of that object when the operation
\* began, and its outcome.
Op(op, self, args, before, out) ==
    [op |-> op, self |-> self, args |-> args, before |-> before, out |-> out]

Threads == 1..MaxThreads

\* a thread that has not called MultiMethod(...) yet
IdleThread ==
    [pc |-> "idle", name |-> None, dispatchfn |-> None, self |-> 0, out |-> None]

Init ==
    /\ module \in Modules
    /\ heap = <<>>
    /\ instances = EmptyDict
    /\ attrs = EmptyDict
    /\ last = Op("import", 0, <<>>, EmptyDict, Return(<<>>, <<>>))
    /\ nops = 0
    /\ budget = MaxOps
    /\ threads = [t \in Threads |-> IdleThread]

\* a session that performs one operation more
InitLong ==
    /\ module \in Modules
    /\ heap = <<>>
    /\ instances = EmptyDict
    /\ attrs = EmptyDict
    /\ last = Op("import", 0, <<>>, EmptyDict, Return(<<>>, <<>>))
    /\ nops = 0
    /\ budget = MaxOps + 1
    /\ threads = [t \in Threads |-> IdleThread]

\* one more operation of the session
Tick == nops < budget /\ nops' = nops + 1 /\ UNCHANGED <<budget, threads>>

\* MultiMethod(name, dispatchfn) or MultiMethod(name, dispatchfn, namespace)
New(name, dispatchfn, namespace) ==
    LET r == IF module = "multimethodic"
             THEN Multimethodic_init(heap, name, dispatchfn, namespace)
                      @@ [instances |-> instances]
             ELSE Multimethods_init(heap, instances, name, dispatchfn, namespace)
    IN /\ Tick
       /\ Len(r.heap) <= MaxInst
       /\ heap' = r.heap
       /\ instances' = r.instances
       /\ last' = Op("new", IF r.out.raised = None THEN Len(r.heap) ELSE 0,
                     <<name, dispatchfn, namespace>>, EmptyDict, r.out)
       /\ UNCHANGED <<module, attrs>>

\* A call that remembers the outcome of the Default fallback: it stores the
\* Default implementation under the dispatch value that had no entry.
Call_Caching(id, x) ==
    LET self == heap[id]
        dv == ApplyDispatchFn(self.dispatchfn, x)
    IN /\ Tick
       /\ last' = Op("call", id, <<x>>, self.methods, MultiMethod_call(self, x))
       /\ heap' = IF /\ ~DispatchFnRaises(self.dispatchfn, x)
                     /\ dv \notin DOMAIN self.methods
                     /\ Default \in DOMAIN self.methods
                  THEN [heap EXCEPT ![id].methods =
                            DictSet(@, dv, self.methods[Default])]
                  ELSE heap
       /\ UNCHANGED <<module, instances, attrs>>

\* heap[id](x)
Call(id, x) ==
    /\ Tick
    /\ last' = Op("call", id, <<x>>, heap[id].methods,
                  MultiMethod_call(heap[id], x))
    /\ UNCHANGED <<module, heap, instances, attrs>>

\* heap[id].addmethod(func, dispatchval)
AddMethod(id, func, dispatchval) ==
    LET r == IF module = "multimethodic"
             THEN Multimethodic_addmethod(heap[id].methods, func, dispatchval)
                      @@ [attrs |-> attrs]
             ELSE Multimethods_addmethod(heap[id].methods, attrs, id, func,
                                         dispatchval)
    IN /\ Tick
       /\ heap' = [heap EXCEPT ![id].methods = r.methods]
       /\ attrs' = r.attrs
       /\ last' = Op("addmethod", id, <<func, dispatchval>>, heap[id].methods,
                     r.out)
       /\ UNCHANGED <<module, instances>>

\* heap[id].removemethod(dispatchval)
RemoveMethod(id, dispatchval) ==
    LET r == IF module = "multimethodic"
             THEN Multimethodic_removemethod(heap[id].methods, dispatchval)
                      @@ [attrs |-> attrs]
             ELSE Multimethods_removemethod(heap[id].methods, attrs, dispatchval)
    IN /\ Tick
       /\ heap' = [heap EXCEPT ![id].methods = r.methods]
       /\ attrs' = r.attrs
       /\ last' = Op("removemethod", id, <<dispatchval>>, heap[id].methods, r.out)
       /\ UNCHANGED <<module, instances>>

\* multimethods.py: heap[id].getmethod(dispatchval)
GetMethod(id, dispatchval) ==
    /\ module = "multimethods"
    /\ Tick
    /\ last' = Op("getmethod", id, <<dispatchval>>, heap[id].methods,
                  Multimethods_getmethod(heap[id].methods, dispatchval))
    /\ UNCHANGED <<module, heap, instances, attrs>>

\* multimethodic.py: heap[id].method(dispatchval), the decorator obtained and
\* not applied
Method(id, dispatchval) ==
    /\ module = "multimethodic"
    /\ Tick
    /\ last' = Op("method", id, <<dispatchval>>, heap[id].methods,
                  Multimethodic_method(id, dispatchval))
    /\ UNCHANGED <<module, heap, instances, attrs>>

\* multimethodic.py: heap[id].method(dispatchval)(func), as in
\*     @mm.method(dispatchval)
\*     def func(...): ...
MethodDecorator(id, dispatchval, func) ==
    LET r == Multimethodic_method_decorator(heap[id].methods, id, dispatchval,
                                            func)
    IN /\ module = "multimethodic"
       /\ Tick
       /\ heap' = [heap EXCEPT ![id].methods = r.methods]
       /\ last' = Op("method_decorator", id, <<dispatchval, func>>,
                     heap[id].methods, r.out)
       /\ UNCHANGED <<module, instances, attrs>>

\* multimethods.py: method(dispatchval)(func), as in
\*     @method(dispatchval)
\*     def func(...): ...
ModuleMethodDecorator(dispatchval, func) ==
    LET r == Multimethods_method_decorator(heap, instances, attrs, dispatchval,
                                           func)
    IN /\ module = "multimethods"
       /\ Tick
       /\ heap' = r.heap
       /\ attrs' = r.attrs
       /\ last' = Op("module_method", r.self, <<dispatchval, func>>,
                     IF r.self = 0 THEN EmptyDict ELSE heap[r.self].methods,
                     r.out)
       /\ UNCHANGED <<module, instances>>

Next ==
    \/ \E name \in Names, dispatchfn \in DispatchFns \cup {NotCallable} :
            New(name, dispatchfn, NoNamespace)
    \/ \E name \in Names, namespace \in Namespaces :
            New(name, "identity", namespace)
    \/ \E id \in Ids, x \in Args : Call(id, x)
    \/ \E id \in Ids, func \in Funcs, dispatchval \in DispatchVals :
            AddMethod(id, func, dispatchval)
    \/ \E id \in Ids, dispatchval \in DispatchVals : RemoveMethod(id, dispatchval)
    \/ \E id \in Ids, dispatchval \in DispatchVals : GetMethod(id, dispatchval)
    \/ \E id \in Ids, dispatchval \in DispatchVals : Method(id, dispatchval)
    \/ \E id \in Ids, dispatchval \in DispatchVals, func \in Funcs :
            MethodDecorator(id, dispatchval, func)
    \/ \E dispatchval \in DispatchVals, func \in Funcs :
            ModuleMethodDecorator(dispatchval, func)

Spec == Init /\ [][Next]_vars

SpecLong == InitLong /\ [][Next]_vars

----------------------------------------------------------------------------
(* multimethods.py: constructions on several threads.  The interpreter may *)
(* switch threads between any two statements of __init__; the statements   *)
(* that touch only the arguments and the new object (which no other thread *)
(* can reach before it is registered) are taken together with the          *)
(* statement that follows them.                                            *)

InitThreads ==
    /\ module = "multimethods"
    /\ heap = <<>>
    /\ instances = EmptyDict
    /\ attrs = EmptyDict
    /\ last = Op("import", 0, <<>>, EmptyDict, Return(<<>>, <<>>))
    /\ nops = 0
    /\ budget = MaxThreads
    /\ threads = [t \in Threads |-> IdleThread]

\* thread t calls MultiMethod(name, dispatchfn): __init__ up to the name
\* check (`if not callable(dispatchfn): raise TypeError`)
ThreadBegin(t, name, dispatchfn) ==
    /\ threads[t].pc = "idle"
    /\ nops < budget
    /\ nops' = nops + 1
    /\ IF ~callable(dispatchfn)
       THEN /\ threads' = [threads EXCEPT ![t] =
                   [pc |-> "done", name |-> name, dispatchfn |-> dispatchfn,
                    self |-> 0, out |-> Raise("TypeError", None, <<>>)]]
            /\ last' = Op("new", 0, <<name, dispatchfn, NoNamespace>>,
                          EmptyDict, Raise("TypeError", None, <<>>))
       ELSE /\ threads' = [threads EXCEPT ![t] =
                   [pc |-> "check", name |-> name, dispatchfn |-> dispatchfn,
                    self |-> 0, out |-> None]]
            /\ last' = last
    /\ UNCHANGED <<module, heap, instances, attrs, budget>>

\* thread t evaluates `if name in self.__class__.instances: raise Exception`
ThreadCheck(t) ==
    LET th == threads[t] IN
    /\ th.pc = "check"
    /\ IF Multimethods_exists(instances, th.name)
       THEN /\ threads' = [threads EXCEPT ![t] =
                   [th EXCEPT !.pc = "done",
                              !.out = Raise("Exception", th.name, <<>>)]]
            /\ last' = Op("new", 0, <<th.name, th.dispatchfn, NoNamespace>>,
                          EmptyDict, Raise("Exception", th.name, <<>>))
       ELSE /\ threads' = [threads EXCEPT ![t] = [th EXCEPT !.pc = "insert"]]
            /\ last' = last
    /\ UNCHANGED <<module, heap, instances, attrs, nops, budget>>

\* thread t sets the attributes of the new object and runs
\* `self.__class__.instances[name] = self`
ThreadInsert(t) ==
    LET th == threads[t] IN
    /\ th.pc = "insert"
    /\ heap' = Append(heap, MultiMethod(th.name, th.dispatchfn))
    /\ instances' = DictSet(instances, th.name, Len(heap) + 1)
    /\ threads' = [threads EXCEPT ![t] =
           [th EXCEPT !.pc = "done", !.self = Len(heap) + 1,
                      !.out = Return(<<>>, <<>>)]]
    /\ last' = Op("new", Len(heap) + 1, <<th.name, th.dispatchfn, NoNamespace>>,
                  EmptyDict, Return(<<>>, <<>>))
    /\ UNCHANGED <<module, attrs, nops, budget>>

NextThreads ==
    \/ \E t \in Threads, name \in Names,
          dispatchfn \in DispatchFns \cup {NotCallable} :
            ThreadBegin(t, name, dispatchfn)
    \/ \E t \in Threads : ThreadCheck(t)
    \/ \E t \in Threads : ThreadInsert(t)

SpecThreads == InitThreads /\ [][NextThreads]_vars

----------------------------------------------------------------------------
(* The error names of the specification, as the Python exceptions the two  *)
(* modules raise for them.                                                 *)

InvalidDispatchFunctionError == "TypeError"
DuplicateNameError == "Exception"
NotFoundError == "KeyError"
DispatchError == IF module = "multimethodic" THEN "DispatchError" ELSE "ValueError"

(* The last operation, when it is a call: the object called, the argument  *)
(* and the dispatch value the object's dispatch function yields for it.    *)

IsCall == last.op = "call"
CallSelf == heap[last.self]
CallArg == last.args[1]
\* the call's dispatch function yielded a dispatch value, CallDv
CallDispatched == IsCall /\ ~DispatchFnRaises(CallSelf.dispatchfn, CallArg)
CallDv == ApplyDispatchFn(CallSelf.dispatchfn, CallArg)

\* out is the outcome of a call that invoked exactly the implementation func,
\* fetched under key, on the arguments x: func's result, or func's failure
InvokedOnly(out, key, func, x) ==
    /\ out.invoked = <<Invocation(key, func, x)>>
    /\ IF FuncRaises(func, x)
       THEN out.raised = "TypeError" /\ out.ret = <<>>
       ELSE out.raised = None /\ out.ret = ApplyFunc(func, x)

----------------------------------------------------------------------------
(* C1: exact match.  Whenever a call's dispatch value v has an entry f in  *)
(* the method table, the call invokes exactly one implementation, the one  *)
(* stored under v, with the call's arguments, and returns its result (or   *)
(* fails with its failure); this holds whether or not a Default entry is   *)
(* present.                                                                *)
C1_ExactMatch ==
    (CallDispatched /\ CallDv \in DOMAIN CallSelf.methods) =>
        InvokedOnly(last.out, CallDv, CallSelf.methods[CallDv], CallArg)

\* A call with an exact match while a different implementation is registered
\* under Default, on an argument that differs from its dispatch value.
C1_Witness ==
    /\ CallDispatched
    /\ CallDv \in DOMAIN CallSelf.methods
    /\ Default \in DOMAIN CallSelf.methods
    /\ CallDv # Default
    /\ CallArg # <<CallDv>>
    /\ CallSelf.methods[CallDv] # CallSelf.methods[Default]
    /\ last.out.ret = ApplyFunc(CallSelf.methods[CallDv], CallArg)

(* C2: Default fallback.  Whenever a call's dispatch value has no entry    *)
(* and Default has one, the call invokes the Default implementation (and   *)
(* nothing else) with the call's arguments and returns its result (or      *)
(* fails with its failure).                                                *)
C2_DefaultFallback ==
    (/\ CallDispatched
     /\ CallDv \notin DOMAIN CallSelf.methods
     /\ Default \in DOMAIN CallSelf.methods) =>
        InvokedOnly(last.out, Default, CallSelf.methods[Default], CallArg)

\* A call that fell back to Default although the table holds another entry.
C2_Witness ==
    /\ CallDispatched
    /\ CallDv \notin DOMAIN CallSelf.methods
    /\ Default \in DOMAIN CallSelf.methods
    /\ DOMAIN CallSelf.methods # {Default}
    /\ last.out.ret = ApplyFunc(CallSelf.methods[Default], CallArg)

(* C3: no match, no default.  Whenever a call's dispatch value has no      *)
(* entry and Default has none either, the call fails with DispatchError    *)
(* carrying the multimethod's name and invokes no implementation.          *)
C3_NoMatchNoDefault ==
    (/\ CallDispatched
     /\ CallDv \notin DOMAIN CallSelf.methods
     /\ Default \notin DOMAIN CallSelf.methods) =>
        /\ last.out.raised = DispatchError
        /\ last.out.errname = CallSelf.name
        /\ last.out.invoked = <<>>

\* A failed dispatch on a multimethod whose table is not empty.
C3_Witness ==
    /\ CallDispatched
    /\ CallDv \notin DOMAIN CallSelf.methods
    /\ Default \notin DOMAIN CallSelf.methods
    /\ DOMAIN CallSelf.methods # {}
    /\ last.out.raised = DispatchError

----------------------------------------------------------------------------
(* The last operation, when it is an addmethod or a removemethod.          *)

IsAdd == last.op = "addmethod"
AddSelf == heap[last.self]
AddFunc == last.args[1]
AddDv == last.args[2]

IsRemove == last.op = "removemethod"
RemSelf == heap[last.self]
RemDv == last.args[1]

\* the arguments a multimethod's dispatch function maps to dispatch value dv
ArgsFor(self, dv) ==
    {x \in Args : /\ ~DispatchFnRaises(self.dispatchfn, x)
                  /\ ApplyDispatchFn(self.dispatchfn, x) = dv}

(* C4: addmethod overwrites.  After addmethod(g, v), whatever the table    *)
(* held before (nothing, g, or another implementation f under v), the      *)
(* operation has not failed, the table's entry for v is g, the keys of the *)
(* table are the former keys and v, and every call that dispatches to v    *)
(* invokes g and returns g's result.                                       *)
C4_AddOverwrites ==
    IsAdd =>
        /\ last.out.raised = None
        /\ DOMAIN AddSelf.methods = DOMAIN last.before \cup {AddDv}
        /\ AddSelf.methods[AddDv] = AddFunc
        /\ \A x \in ArgsFor(AddSelf, AddDv) :
               InvokedOnly(MultiMethod_call(AddSelf, x), AddDv, AddFunc, x)

\* An addmethod that replaced another implementation under the same dispatch
\* value, in a table that holds other dispatch values too, on a multimethod
\* that some call dispatches to that value.
C4_Witness ==
    /\ IsAdd
    /\ AddDv \in DOMAIN last.before
    /\ last.before[AddDv] # AddFunc
    /\ DOMAIN last.before # {AddDv}
    /\ AddSelf.methods[AddDv] = AddFunc
    /\ ArgsFor(AddSelf, AddDv) # {}

(* C5: removemethod on a present value.  Whenever removemethod(v) is       *)
(* called while the table holds an entry for v, it succeeds, the entry is  *)
(* gone, and every call that dispatches to v then invokes the Default      *)
(* implementation if one is registered and fails with DispatchError        *)
(* otherwise.                                                              *)
C5_RemovePresent ==
    (IsRemove /\ RemDv \in DOMAIN last.before) =>
        /\ last.out.raised = None
        /\ RemDv \notin DOMAIN RemSelf.methods
        /\ \A x \in ArgsFor(RemSelf, RemDv) :
               IF Default \in DOMAIN RemSelf.methods
               THEN InvokedOnly(MultiMethod_call(RemSelf, x), Default,
                                RemSelf.methods[Default], x)
               ELSE MultiMethod_call(RemSelf, x) =
                        Raise(DispatchError, RemSelf.name, <<>>)

(* C6: removemethod on an absent value.  Every removemethod(v) performed   *)
(* while the table has no entry for v fails with NotFoundError and leaves  *)
(* all method tables and the registry as they were.                        *)
C6_RemoveAbsent ==
    [][last'.op = "removemethod" =>
          \A id \in Ids, dv \in DispatchVals :
              (RemoveMethod(id, dv) /\ dv \notin DOMAIN heap[id].methods) =>
                  /\ last'.out.raised = NotFoundError
                  /\ heap' = heap
                  /\ instances' = instances]_vars

\* A failed removemethod of a value that is absent from a table that is not
\* empty.
C6_Witness ==
    /\ IsRemove
    /\ RemDv \notin DOMAIN last.before
    /\ last.out.raised = NotFoundError
    /\ RemSelf.methods = last.before
    /\ DOMAIN RemSelf.methods # {}

----------------------------------------------------------------------------
(* The last operation, when it is a construction.                          *)

IsNew == last.op = "new"
NewName == last.args[1]
NewDispatchFn == last.args[2]
NewNamespace == last.args[3]

C8_SameNameIndependent ==
    [][module = "multimethodic" =>
          /\ last'.op = "new" =>
                \A name \in {heap[i].name : i \in Ids},
                   dispatchfn \in DispatchFns :
                    New(name, dispatchfn, NoNamespace) =>
                        /\ last'.out.raised = None
                        /\ heap' = Append(heap, MultiMethod(name, dispatchfn))
          /\ last'.op = "addmethod" =>
                \A id \in Ids, func \in Funcs, dv \in DispatchVals :
                    AddMethod(id, func, dv) =>
                    \A j \in Ids \ {id} :
                        heap[j].name = heap[id].name =>
                            /\ heap'[j] = heap[j]
                            /\ \A x \in Args :
                                   MultiMethod_call(heap'[j], x) =
                                       MultiMethod_call(heap[j], x)]_vars

\* Two multimethods of the same name: a call on one fails to dispatch on a
\* value the other has a method for.
C8_Witness ==
    /\ module = "multimethodic"
    /\ CallDispatched
    /\ last.out.raised = DispatchError
    /\ \E i \in Ids \ {last.self} :
           /\ heap[i].name = CallSelf.name
           /\ CallDv \in DOMAIN heap[i].methods

(* C9: namespaces partition identity.  A construction with a namespace and *)
(* a callable dispatch function succeeds (no composite identity            *)
(* namespace.name is ever registered, so none can collide), and registers  *)
(* the new multimethod.                                                    *)
C9_NamespacesPartition ==
    (IsNew /\ NewNamespace # NoNamespace /\ callable(NewDispatchFn)) =>
        /\ last.out.raised = None
        /\ last.self \in Ids
        /\ heap[last.self].name = NewName

(* C10: non-callable dispatch function.  Every construction with a         *)
(* dispatch function that is not callable fails with                       *)
(* InvalidDispatchFunctionError, creates no multimethod and leaves the     *)
(* registry as it was.                                                     *)
C10_NonCallable ==
    [][last'.op = "new" =>
          \A name \in Names :
              New(name, NotCallable, NoNamespace) =>
                  /\ last'.out.raised = InvalidDispatchFunctionError
                  /\ heap' = heap
                  /\ instances' = instances]_vars

\* A construction rejected for its dispatch function, under a name that is
\* still free in a registry that holds another multimethod.
C10_Witness ==
    /\ module = "multimethods"
    /\ IsNew
    /\ NewDispatchFn = NotCallable
    /\ NewNamespace = NoNamespace
    /\ last.out.raised = InvalidDispatchFunctionError
    /\ NewName \notin DOMAIN instances
    /\ DOMAIN instances # {}

----------------------------------------------------------------------------
(* C11: the decorator form (multimethodic.py).  Applying mm.method(v) to f *)
(* returns the multimethod mm itself and leaves the state addmethod(f, v)  *)
(* leaves: mm's table maps v to f, holds the former keys and v with every  *)
(* other entry as before, and no other multimethod and nothing else is     *)
(* changed.  Obtaining mm.method(v) without applying it changes nothing.   *)
C11_DecoratorIsAddMethod ==
    [][/\ last'.op = "method_decorator" =>
             \A id \in Ids, dv \in DispatchVals, func \in Funcs :
                 MethodDecorator(id, dv, func) =>
                     /\ last'.out.raised = None
                     /\ last'.out.ret = ObjRef(id)
                     /\ DOMAIN heap'[id].methods =
                            DOMAIN heap[id].methods \cup {dv}
                     /\ \A k \in DOMAIN heap'[id].methods :
                            heap'[id].methods[k] =
                                IF k = dv THEN func ELSE heap[id].methods[k]
                     /\ heap' = [heap EXCEPT ![id].methods = heap'[id].methods]
                     /\ heap'[id].methods =
                            Multimethodic_addmethod(heap[id].methods, func,
                                                    dv).methods
                     /\ instances' = instances
                     /\ attrs' = attrs
       /\ last'.op = "method" =>
             /\ last'.out.raised = None
             /\ heap' = heap
             /\ instances' = instances
             /\ attrs' = attrs]_vars

\* A decorator application that replaced another implementation in a table
\* that holds a further entry, and returned the multimethod.
C11_Witness ==
    /\ last.op = "method_decorator"
    /\ last.args[1] \in DOMAIN last.before
    /\ last.before[last.args[1]] # last.args[2]
    /\ DOMAIN last.before # {last.args[1]}
    /\ heap[last.self].methods[last.args[1]] = last.args[2]
    /\ last.out.ret = ObjRef(last.self)

----------------------------------------------------------------------------
(* The module-level decorator of multimethods.py.                          *)

\* '__' occurs in chars at position k and nowhere after it
LastSepAt(chars, k) ==
    /\ SepAt(chars, k)
    /\ \A j \in (k + 1)..Len(chars) : ~SepAt(chars, j)

(* C12: registry-resolved decorator, unknown identity.  Every application  *)
(* of method(v) to a function whose name holds '__' and whose multimethod  *)
(* name (the part before the last '__') is not registered fails with       *)
(* NotFoundError and changes no method table, no registry entry and no     *)
(* back-reference.                                                         *)
C12_UnknownIdentity ==
    [][last'.op = "module_method" =>
          \A dv \in DispatchVals, func \in Funcs :
              (/\ ModuleMethodDecorator(dv, func)
               /\ \E k \in 1..Len(FuncName(func)) :
                      /\ LastSepAt(FuncName(func), k)
                      /\ Join(SubSeq(FuncName(func), 1, k - 1))
                             \notin DOMAIN instances) =>
                  /\ last'.out.raised = NotFoundError
                  /\ heap' = heap
                  /\ instances' = instances
                  /\ attrs' = attrs]_vars

\* A failed registration of a__b__c while a multimethod named a (which holds
\* a method) is registered and a__b is not.
C12_Witness ==
    /\ last.op = "module_method"
    /\ last.args[2] = "g"
    /\ last.out.raised = NotFoundError
    /\ "a" \in DOMAIN instances
    /\ "a__b" \notin DOMAIN instances
    /\ DOMAIN heap[instances["a"]].methods # {}

----------------------------------------------------------------------------
(* C13: getmethod reflects the add/remove history (multimethods.py).  Step *)
(* by step: after a method f was added for v on a multimethod (addmethod   *)
(* or the module-level decorator), getmethod(v) returns f; after v was     *)
(* removed, getmethod(v) fails with NotFoundError; on a new multimethod    *)
(* getmethod(v) fails with NotFoundError; every other operation, getmethod *)
(* included, leaves the answer of getmethod(v) on every multimethod and    *)
(* the method tables as they were.                                         *)
C13_GetMethodHistory ==
    [][module = "multimethods" =>
          /\ \A id \in 1..Len(heap'), dv \in DispatchVals :
                 Multimethods_getmethod(heap'[id].methods, dv) =
                     IF id \notin Ids
                     THEN Raise(NotFoundError, None, <<>>)
                     ELSE IF /\ last'.op = "addmethod"
                             /\ last'.self = id
                             /\ last'.args[2] = dv
                             /\ last'.out.raised = None
                     THEN Return(FuncRef(last'.args[1]), <<>>)
                     ELSE IF /\ last'.op = "module_method"
                             /\ last'.self = id
                             /\ last'.args[1] = dv
                             /\ last'.out.raised = None
                     THEN Return(FuncRef(last'.args[2]), <<>>)
                     ELSE IF /\ last'.op = "removemethod"
                             /\ last'.self = id
                             /\ last'.args[1] = dv
                             /\ last'.out.raised = None
                     THEN Raise(NotFoundError, None, <<>>)
                     ELSE Multimethods_getmethod(heap[id].methods, dv)
          /\ last'.op = "getmethod" =>
                 /\ heap' = heap
                 /\ last'.out = Multimethods_getmethod(heap[last'.self].methods,
                                                       last'.args[1])]_vars

\* getmethod(v) answered g, the implementation added last, after it replaced
\* f under v (f holds a back-reference and is in no table any more), in a
\* table that has no Default entry.
C13_Witness ==
    /\ last.op = "getmethod"
    /\ last.out.ret = FuncRef("g")
    /\ last.args[1] # Default
    /\ "f" \in DOMAIN attrs
    /\ \A i \in Ids : \A k \in DOMAIN heap[i].methods : heap[i].methods[k] # "f"
    /\ Default \notin DOMAIN heap[last.self].methods

----------------------------------------------------------------------------
\* the key under which a call that dispatched fetches its implementation
CallKey == IF CallDv \in DOMAIN CallSelf.methods THEN CallDv ELSE Default

(* C14: caller-supplied failures propagate.  A call whose dispatch         *)
(* function fails ends with that failure and has invoked no                *)
(* implementation; a call whose selected implementation (exact match, or   *)
(* Default when there is no exact match) fails ends with that failure,     *)
(* not with DispatchError, and has invoked that implementation once and    *)
(* no other.                                                               *)
C14_FailuresPropagate ==
    IsCall =>
        /\ DispatchFnRaises(CallSelf.dispatchfn, CallArg) =>
               last.out = Raise("TypeError", None, <<>>)
        /\ (/\ CallDispatched
            /\ CallKey \in DOMAIN CallSelf.methods
            /\ FuncRaises(CallSelf.methods[CallKey], CallArg)) =>
               /\ last.out =
                      Raise("TypeError", None,
                            <<Invocation(CallKey, CallSelf.methods[CallKey],
                                         CallArg)>>)
               /\ last.out.raised # DispatchError

\* A call whose exactly matching implementation failed while the table holds
\* a Default implementation that would have accepted the arguments.
C14_Witness ==
    /\ CallDispatched
    /\ CallDv # Default
    /\ CallDv \in DOMAIN CallSelf.methods
    /\ FuncRaises(CallSelf.methods[CallDv], CallArg)
    /\ Default \in DOMAIN CallSelf.methods
    /\ ~FuncRaises(CallSelf.methods[Default], CallArg)
    /\ last.out.raised = "TypeError"

----------------------------------------------------------------------------
(* C15: the registry is append-only.  In every step, every registered name *)
(* stays registered and maps to the same multimethod object, which keeps   *)
(* its name; and the registry changes only in a construction that          *)
(* succeeded, by the one entry of the constructed multimethod under its    *)
(* name.                                                                   *)
C15_RegistryAppendOnly ==
    [][/\ \A name \in DOMAIN instances :
              /\ name \in DOMAIN instances'
              /\ instances'[name] = instances[name]
              /\ heap'[instances'[name]].name = name
       /\ instances' # instances =>
              /\ last'.op = "new"
              /\ last'.out.raised = None
              /\ last'.self = Len(heap) + 1
              /\ DOMAIN instances' = DOMAIN instances \cup {last'.args[1]}
              /\ instances'[last'.args[1]] = last'.self]_vars

\* Two multimethods are registered, and the last method of one of them was
\* just removed.
C15_Witness ==
    /\ Cardinality(DOMAIN instances) = 2
    /\ IsRemove
    /\ last.out.raised = None
    /\ DOMAIN RemSelf.methods = {}

----------------------------------------------------------------------------
(* C16: atomic check-then-insert (multimethods.py, constructions on        *)
(* several threads).  No two constructions under one name have both        *)
(* succeeded, and every multimethod whose construction succeeded is the    *)
(* one the registry holds under its name.                                  *)
C16_AtomicCheckThenInsert ==
    /\ \A t1 \in Threads : \A t2 \in Threads \ {t1} :
           (/\ threads[t1].pc = "done" /\ threads[t1].out.raised = None
            /\ threads[t2].pc = "done" /\ threads[t2].out.raised = None) =>
               threads[t1].name # threads[t2].name
    /\ \A t \in Threads :
           (threads[t].pc = "done" /\ threads[t].out.raised = None) =>
               instances[threads[t].name] = threads[t].self

----------------------------------------------------------------------------
(* C17: name-derived resolution (multimethods.py).  Every application of   *)
(* method(v) to a function named P__S, P being everything before the last  *)
(* '__', with P registered, returns the function itself, sets the entry    *)
(* for v in the table of the multimethod registered as P to the function,  *)
(* and leaves every other entry of that table, every other multimethod and *)
(* the registry as they were.  Every application to a function whose name  *)
(* holds no '__' fails and changes nothing.                                *)
C17_NameDerivedResolution ==
    [][last'.op = "module_method" =>
          \A dv \in DispatchVals, func \in Funcs :
              ModuleMethodDecorator(dv, func) =>
                  /\ (\A k \in 1..Len(FuncName(func)) :
                          ~SepAt(FuncName(func), k)) =>
                         /\ last'.out.raised # None
                         /\ heap' = heap
                         /\ instances' = instances
                         /\ attrs' = attrs
                  /\ \A k \in 1..Len(FuncName(func)) :
                         (/\ LastSepAt(FuncName(func), k)
                          /\ Join(SubSeq(FuncName(func), 1, k - 1))
                                 \in DOMAIN instances) =>
                             LET id == instances[Join(SubSeq(FuncName(func), 1,
                                                             k - 1))]
                             IN /\ last'.out = Return(FuncRef(func), <<>>)
                                /\ DOMAIN heap'[id].methods =
                                       DOMAIN heap[id].methods \cup {dv}
                                /\ \A d \in DOMAIN heap'[id].methods :
                                       heap'[id].methods[d] =
                                           IF d = dv THEN func
                                           ELSE heap[id].methods[d]
                                /\ heap' = [heap EXCEPT ![id].methods =
                                                heap'[id].methods]
                                /\ instances' = instances]_vars

\* a__b__c was added to the multimethod a__b while a multimethod a is
\* registered too, and a's table does not hold it.
C17_Witness ==
    /\ last.op = "module_method"
    /\ last.args[2] = "g"
    /\ last.out.ret = FuncRef("g")
    /\ "a" \in DOMAIN instances
    /\ "a__b" \in DOMAIN instances
    /\ last.self = instances["a__b"]
    /\ heap[instances["a__b"]].methods[last.args[1]] = "g"
    /\ \A d \in DOMAIN heap[instances["a"]].methods :
           heap[instances["a"]].methods[d] # "g"

----------------------------------------------------------------------------
(* C18: calls are read-only.  Every call, whatever its outcome (exact      *)
(* match, Default fallback, DispatchError or a failure of the dispatch     *)
(* function or of the implementation), leaves the method table of the      *)
(* multimethod called, every other multimethod, the registry and the       *)
(* back-references as they were.                                           *)
C18_CallsReadOnly ==
    [][last'.op = "call" =>
          /\ heap' = heap
          /\ instances' = instances
          /\ attrs' = attrs
          /\ last'.before = heap[last'.self].methods]_vars

\* A call that fell back to Default on one of two multimethods, whose table
\* is as it was when the call began.
C18_Witness ==
    /\ CallDispatched
    /\ Len(heap) = 2
    /\ CallDv \notin DOMAIN CallSelf.methods
    /\ Default \in DOMAIN CallSelf.methods
    /\ last.out.invoked # <<>>
    /\ CallSelf.methods = last.before

----------------------------------------------------------------------------
(* C19: registration frame.  Every addmethod(f, v) and every removemethod  *)
(* (v) that succeeded on a multimethod M leaves every entry of M other     *)
(* than the one for v (present or absent) as it was, and leaves M's name   *)
(* and dispatch function, every other multimethod and the registry as they *)
(* were.                                                                   *)
C19_RegistrationFrame ==
    [][(\/ last'.op = "addmethod"
        \/ last'.op = "removemethod" /\ last'.out.raised = None) =>
          LET id == last'.self
              dv == IF last'.op = "addmethod"
                    THEN last'.args[2] ELSE last'.args[1]
          IN /\ Len(heap') = Len(heap)
             /\ \A j \in Ids \ {id} : heap'[j] = heap[j]
             /\ heap'[id].name = heap[id].name
             /\ heap'[id].dispatchfn = heap[id].dispatchfn
             /\ \A d \in DispatchVals \ {dv} :
                    /\ d \in DOMAIN heap'[id].methods <=>
                           d \in DOMAIN heap[id].methods
                    /\ d \in DOMAIN heap[id].methods =>
                           heap'[id].methods[d] = heap[id].methods[d]
             /\ instances' = instances]_vars

\* A removemethod(v), v not Default, that succeeded and left the Default
\* entry in the table.
C19_Witness ==
    /\ IsRemove
    /\ last.out.raised = None
    /\ RemDv # Default
    /\ RemDv \notin DOMAIN RemSelf.methods
    /\ Default \in DOMAIN RemSelf.methods
    /\ RemSelf.methods[Default] = last.before[Default]

----------------------------------------------------------------------------
\* the implementations the table of multimethod i holds
Held(i) == {heap[i].methods[d] : d \in DOMAIN heap[i].methods}

(* C20: back-reference consistency (multimethods.py).  In every state,     *)
(* every implementation held by some method table carries a back-reference *)
(* to a multimethod whose table holds it, and every implementation that    *)
(* carries a back-reference is held by some table.                         *)
C20_BackReferenceConsistent ==
    module = "multimethods" =>
        /\ \A i \in Ids : \A func \in Held(i) :
               /\ func \in DOMAIN attrs
               /\ attrs[func] \in Ids
               /\ func \in Held(attrs[func])
        /\ \A func \in DOMAIN attrs : \E i \in Ids : func \in Held(i)

============================================================================
